---------------------------- MODULE Spec2Model ----------------------------
(***************************************************************************)
(* A model of storage/storage-s3v.go (S3vStorage): the client of a         *)
(* versioned object store.  It covers the five retry loops (List,          *)
(* PutObject, GetObjectContent, GetObjectMeta, DeleteObject), the          *)
(* pagination cursor storage.listMarker, the cancellation context and the  *)
(* blocking send of listed records to the output channel.                  *)
(*                                                                         *)
(* Two callers are modelled: one that runs List calls and one that runs    *)
(* per-object calls.  A remote call, one record sent to the channel, one   *)
(* tick of time.Sleep and one return are one step each.                    *)
(***************************************************************************)
EXTENDS Integers, Sequences, FiniteSets, TLC

(***************************************************************************)
(* Bounds of the model.                                                    *)
(***************************************************************************)
MaxRetry == 2        \* retryCnt ranges over 0..MaxRetry
MaxVersions == 5     \* the store holds 1..MaxVersions version records
MaxKeysPerReq == 3   \* keysPerReq ranges over 2..MaxKeysPerReq
MaxLists == 2        \* List calls made one after the other on one client
MaxOps == 2          \* per-object calls made one after the other
RetryInterval == 2   \* retryInterval, in ticks of the clock
NumResults == 2      \* distinct responses the store may give to a get/head
MaxLimiters == 2     \* WithRateLimit calls made on one client

(***************************************************************************)
(* Values.                                                                 *)
(***************************************************************************)
Nil == 0                                  \* a nil *string, *time.Time, map ...
NilErr == [kind |-> "nil", seq |-> 0]     \* a nil error
ErrKinds == {"network", "notfound"}       \* causes the remote side reports
\* An error value: its cause and the remote call (by serial number within
\* the operation) that produced it; two calls never give the same value.
MkErr(k, n) == [kind |-> k, seq |-> n]
NilBytes == [nil |-> TRUE, data |-> <<>>]         \* a nil *[]byte
Bytes(s) == [nil |-> FALSE, data |-> s]           \* a pointer to the bytes s
NilETag == [nil |-> TRUE, weak |-> FALSE, tag |-> 0]

Min(a, b) == IF a < b THEN a ELSE b

\* strongEtag (storage package, not in this file): the fingerprint without
\* its weak marker.
strongEtag(e) == IF e.nil THEN e ELSE [nil |-> FALSE, weak |-> FALSE, tag |-> e.tag]

\* url.QueryUnescape on a key, a sequence of tokens: "%2B" is "+", "+" is a
\* space, "%2F" is "/", anything else is itself.
UnescapeTok(t) ==
    CASE t = "%2B" -> "+"
      [] t = "%2F" -> "/"
      [] t = "+"   -> " "
      [] OTHER     -> t
QueryUnescape(s) == [i \in DOMAIN s |-> UnescapeTok(s[i])]

\* A path, like a key, is a sequence of tokens; "/" is the separator and
\* "." the dot.  The elements of path s: what lies between its separators.
RECURSIVE Split(_)
Split(s) ==
    IF s = <<>> THEN << <<>> >>
    ELSE LET rest == Split(Tail(s))
         IN IF Head(s) = "/" THEN << <<>> >> \o rest
            ELSE << <<Head(s)>> \o rest[1] >> \o Tail(rest)
DotDot == <<".", ".">>
\* filepath.Clean, element by element: empty elements and "." are dropped,
\* ".." takes the element before it away, or stays at the front of a path
\* that is not rooted.
RECURSIVE CleanElems(_, _, _)
CleanElems(es, out, rooted) ==
    IF es = <<>> THEN out
    ELSE LET e == Head(es)
         IN CleanElems(Tail(es),
                IF e = <<>> \/ e = <<".">> THEN out
                ELSE IF e = DotDot
                THEN IF out # <<>> /\ out[Len(out)] # DotDot
                     THEN SubSeq(out, 1, Len(out) - 1)
                     ELSE IF rooted THEN out ELSE Append(out, e)
                ELSE Append(out, e),
                rooted)
RECURSIVE JoinElems(_)
JoinElems(es) ==
    IF es = <<>> THEN <<>>
    ELSE IF Len(es) = 1 THEN es[1]
    ELSE es[1] \o <<"/">> \o JoinElems(Tail(es))
\* filepath.Clean: the shortest path equivalent to s; "." for the empty one.
Clean(s) ==
    IF s = <<>> THEN <<".">>
    ELSE LET rooted == s[1] = "/"
             r == (IF rooted THEN <<"/">> ELSE <<>>)
                     \o JoinElems(CleanElems(Split(s), <<>>, rooted))
         IN IF r = <<>> THEN <<".">> ELSE r
\* filepath.Join(a, b): the elements that are not empty, joined by the
\* separator, and the result cleaned; empty when both are empty.
Join(a, b) ==
    IF a = <<>> /\ b = <<>> THEN <<>>
    ELSE IF a = <<>> THEN Clean(b)
    ELSE IF b = <<>> THEN Clean(a)
    ELSE Clean(a \o <<"/">> \o b)

\* The object a caller passes to or gets from the client (type Object).
MkObject(key, vid, etag, mtime, latest) ==
    [Key |-> key, VersionId |-> vid, ETag |-> etag, Mtime |-> mtime,
     IsLatest |-> latest, Content |-> NilBytes, ContentType |-> Nil,
     ContentDisposition |-> Nil, ContentEncoding |-> Nil,
     ContentLanguage |-> Nil, Metadata |-> Nil, CacheControl |-> Nil,
     ACL |-> Nil]

(***************************************************************************)
(* The remote store (the collaborator behind storage.awsSvc).              *)
(***************************************************************************)
\* The literal key of version record i: two versions per key.
KeyNames == <<"a", "b", "c", "d", "e", "f">>
\* The listing with EncodingType url: keys come back escaped.
StoreVersion(i) ==
    [Key |-> <<"k", "%2F", KeyNames[(i + 1) \div 2]>>, VersionId |-> i,
     ETag |-> [nil |-> FALSE, weak |-> (i % 2 = 0), tag |-> i],
     LastModified |-> 100 + i, IsLatest |-> (i % 2 = 1)]

\* One page of ListObjectVersions for a request whose version-id marker is m
\* (Nil: from the beginning; i: after version record i) and MaxKeys is n, on
\* a store of nv records.  The response echoes the request's marker in
\* VersionIdMarker and names the continuation in NextVersionIdMarker.
ListObjectVersions(m, n, nv) ==
    LET last == Min(m + n, nv)
    IN [Versions |-> [j \in 1..(last - m) |-> StoreVersion(m + j)],
        VersionIdMarker |-> m,
        NextVersionIdMarker |-> IF last < nv THEN last ELSE Nil,
        IsTruncated |-> last < nv]

\* The response of GetObject / HeadObject number r.
StoreResult(r) ==
    [Body |-> <<r, r + 10>>, ContentLength |-> 2,
     ContentType |-> 20 + r, ContentDisposition |-> 30 + r,
     ContentEncoding |-> 40 + r, ContentLanguage |-> 50 + r,
     ETag |-> [nil |-> FALSE, weak |-> (r = 1), tag |-> 60 + r],
     Metadata |-> 70 + r, LastModified |-> 80 + r, CacheControl |-> 90 + r]
NoResult == [Body |-> <<>>, ContentLength |-> 0,
     ContentType |-> Nil, ContentDisposition |-> Nil,
     ContentEncoding |-> Nil, ContentLanguage |-> Nil,
     ETag |-> NilETag,
     Metadata |-> Nil, LastModified |-> Nil, CacheControl |-> Nil]

(***************************************************************************)
(* State.                                                                  *)
(***************************************************************************)
VARIABLES
    \* the client (type S3vStorage) and its surroundings
    retryCnt,     \* storage.retryCnt
    keysPerReq,   \* storage.keysPerReq
    listMarker,   \* storage.listMarker, the pagination cursor
    ctxDone,      \* whether storage.ctx has been cancelled
    numVersions,  \* how many version records the store holds under the prefix
    cancelAt,     \* history: where the two callers were when Cancel fired
    prefix,       \* storage.prefix
    rlBucket,     \* storage.rlBucket, the installed rate limiter
    nrl,          \* WithRateLimit calls made
    rlErr,        \* whether the last WithRateLimit call returned an error
    \* the per-object call in progress
    cpc,          \* "idle", "call", "drain", "sleep", "done", "panic"
    cop,          \* "Put", "GetContent", "GetMeta", "Delete"
    ci,           \* the loop variable i
    cleft,        \* ticks of time.Sleep still to pass
    cresult,      \* the result of the last remote call kept for the drain
    cbuf,         \* buf: the bytes copied by the current drain
    cret,         \* the error the call returned
    obj,          \* the Object passed by pointer
    nops,         \* per-object calls started
    cpos,         \* the offset of objReader, the reader over *obj.Content
    stored,       \* the body the store accepted from the last PutObject
    \* history of the per-object call, for the properties only
    obj0,         \* obj when the call started
    ccalls,       \* remote calls issued by this call
    cwaits,       \* sleeps started by this call
    cslept,       \* ticks slept by this call
    clast,        \* the error of the latest failed step
    creqFails,    \* remote calls of this call that failed
    cdrainFails,  \* drains of this call that failed
    cdropped,     \* bytes copied by the drains of this call that failed
    clastPhase,   \* the phase of the latest failed step: "request", "drain"
    creqAfterDrainFail,  \* a get-object request followed a failed drain
    cdoneAtCall,  \* ctxDone held when the call started
    ctokens,      \* tokens this call took from a rate limiter
    cbucket,      \* the rate limiter this call wrapped its body with
    ckey,         \* the Key of the input this call built
    putKey,       \* the key the store wrote on the last PutObject that returned nil
    \* the List call in progress
    lpc,          \* "idle", "request", "send", "mark", "sleep", "done"
    li,           \* the loop variable i
    lleft,        \* ticks of time.Sleep still to pass
    tok,          \* the marker the pager sends in its next page request
    page,         \* p: the page handed to listObjectsFn
    pidx,         \* records of p already sent
    lret,         \* the error the call returned
    nlists,       \* List calls started
    consumer,     \* whether the reader of the output channel still receives
    \* history of the List call, for the properties only
    output,       \* the Objects sent to the channel by this call, in order
    lreqs,        \* the page requests of this call: marker, attempt, outcome
    lfull,        \* request markers of the pages listObjectsFn finished
    lwaits,       \* sleeps started by this call
    lslept,       \* ticks slept by this call
    llast,        \* the error of the latest failed page request
    prev          \* what the previous List call on this client left

cvars == <<cpc, cop, ci, cleft, cresult, cbuf, cret, obj, nops, cpos, stored,
           obj0, ccalls,
           cwaits, cslept, clast, creqFails, cdrainFails, cdropped,
           clastPhase, creqAfterDrainFail, cdoneAtCall, ctokens, cbucket,
           ckey, putKey>>
limiterVars == <<rlBucket, nrl, rlErr>>
clientVars == <<retryCnt, keysPerReq, listMarker, ctxDone, numVersions, cancelAt,
                prefix, limiterVars>>
lvars == <<lpc, li, lleft, tok, page, pidx, lret, nlists, consumer, output,
           lreqs, lfull, lwaits, lslept, llast, prev>>
vars == <<clientVars, cvars, lvars>>

Ops == {"Put", "GetContent", "GetMeta", "Delete"}

\* An Object as List delivers it, and one ready for PutObject.
ListedObject == MkObject(<<"k", "/", "a">>, 1, strongEtag(StoreVersion(1).ETag), 101, TRUE)
FullObject ==
    [ListedObject EXCEPT !.Content = Bytes(<<7, 8>>), !.ContentType = 5,
                         !.Metadata = 6, !.ACL = 9]

NotCancelled == [c |-> "none", l |-> "none"]

\* ratelimit.NewFakeBucket() (line 71): the limiter that never delays.
FakeBucket == [id |-> 0, rate |-> 0]
\* No limiter: a call that wraps no body.
NoBucket == [id |-> -1, rate |-> 0]
\* The prefixes a client is made with: none, a name, a name with its
\* separator, the current directory, the root, a name taken back.
NoPrefix == <<>>
Prefixes == {NoPrefix, <<"p">>, <<"p", "/">>, <<".">>, <<"/">>,
             <<"p", "/", ".", ".">>}
NoKey == [nil |-> TRUE, key |-> <<>>]
\* The values a caller passes to WithRateLimit.
Limits == {0, 3}

\* NewS3vStorage: the cursor is nil, the context is context.TODO().  ks are
\* the page sizes, nvs the store sizes and ps the prefixes considered.
InitClient(ks, nvs, ps) ==
    /\ prefix \in ps
    /\ retryCnt \in 0..MaxRetry
    /\ keysPerReq \in ks
    /\ numVersions \in nvs
    /\ listMarker = Nil
    /\ ctxDone = FALSE
    /\ cancelAt = NotCancelled
    /\ rlBucket = FakeBucket
    /\ nrl = 0
    /\ rlErr = FALSE

InitCrud ==
    /\ cpc = "idle"
    /\ cop = "Put"
    /\ ci = 0
    /\ cleft = 0
    /\ cresult = NoResult
    /\ cbuf = <<>>
    /\ cret = NilErr
    /\ obj \in {ListedObject, FullObject}
    /\ nops = 0
    /\ cpos = 0
    /\ stored = NilBytes
    /\ obj0 = obj
    /\ ccalls = 0
    /\ cwaits = 0
    /\ cslept = 0
    /\ clast = NilErr
    /\ creqFails = 0
    /\ cdrainFails = 0
    /\ cdropped = 0
    /\ clastPhase = "none"
    /\ creqAfterDrainFail = FALSE
    /\ cdoneAtCall = FALSE
    /\ ctokens = 0
    /\ cbucket = NoBucket
    /\ ckey = <<>>
    /\ putKey = NoKey

NoPage == [Versions |-> <<>>, VersionIdMarker |-> Nil,
           NextVersionIdMarker |-> Nil, IsTruncated |-> FALSE]
NoPrev == [called |-> FALSE, full |-> <<>>, ret |-> "nil"]

InitList ==
    /\ lpc = "idle"
    /\ li = 0
    /\ lleft = 0
    /\ tok = Nil
    /\ page = NoPage
    /\ pidx = 0
    /\ lret = NilErr
    /\ nlists = 0
    /\ consumer = TRUE
    /\ output = <<>>
    /\ lreqs = <<>>
    /\ lfull = <<>>
    /\ lwaits = 0
    /\ lslept = 0
    /\ llast = NilErr
    /\ prev = NoPrev

(***************************************************************************)
(* The retry decision every loop makes after a step, on its error and i.   *)
(***************************************************************************)
\* A plausible slip: the last attempt is taken for a retry.
RetryDecisionOffByOne(err, i) ==
    IF err # NilErr /\ i + 1 < retryCnt THEN "retry"
    ELSE IF err # NilErr THEN "fail"
    ELSE "go"
\* A plausible slip: a "not found" answer is taken for permanent.
RetryDecisionClassifies(err, i) ==
    IF err # NilErr /\ err.kind # "notfound" /\ i < retryCnt THEN "retry"
    ELSE IF err # NilErr THEN "fail"
    ELSE "go"
\* if (err != nil) && (i < retryCnt) {sleep; continue}
\* else if (err != nil) && (i == retryCnt) {return err}; otherwise go on.
RetryDecision(err, i) ==
    IF err # NilErr /\ i < retryCnt THEN "retry"
    ELSE IF err # NilErr /\ i = retryCnt THEN "fail"
    ELSE "go"

(***************************************************************************)
(* The cancellation context.                                               *)
(***************************************************************************)
\* WithContext(ctx): attach a context, live (d = FALSE) or already done.
\* The write to storage.ctx is not synchronised with the reads the calls
\* make, so a caller attaches a context only while no call is running.
WithContext(d) ==
    /\ cpc \in {"idle", "done", "panic"}
    /\ lpc \in {"idle", "done"}
    /\ ctxDone' = d
    /\ cancelAt' = IF d THEN [c |-> cpc, l |-> lpc] ELSE NotCancelled
    /\ UNCHANGED <<retryCnt, keysPerReq, listMarker, numVersions, prefix,
                   limiterVars, cvars, lvars>>

\* The owner of the attached context cancels it.
Cancel ==
    /\ ~ctxDone
    /\ ctxDone' = TRUE
    /\ cancelAt' = [c |-> cpc, l |-> lpc]
    /\ UNCHANGED <<retryCnt, keysPerReq, listMarker, numVersions, prefix,
                   limiterVars, cvars, lvars>>

(***************************************************************************)
(* The rate limiter.                                                       *)
(***************************************************************************)
\* ratelimit.NewBucketWithRate(float64(limit), int64(limit)), line 84: a
\* bucket of rate and capacity limit; a capacity that is not positive is
\* refused.
NewBucketWithRate(limit, n) ==
    IF limit <= 0 THEN [bucket |-> NoBucket, err |-> TRUE]
    ELSE [bucket |-> [id |-> n, rate |-> limit], err |-> FALSE]

\* Lines 85-88: on an error the call returns before the assignment.
BucketAfter(old, made) == IF made.err THEN old ELSE made.bucket

\* WithRateLimit(limit).  The write to storage.rlBucket is not synchronised
\* with the reads the calls make, so a caller sets the limit only while no
\* per-object call is running.
WithRateLimit(limit) ==
    /\ cpc \in {"idle", "done", "panic"}
    /\ nrl < MaxLimiters
    /\ nrl' = nrl + 1
    /\ LET made == NewBucketWithRate(limit, nrl + 1)
       IN /\ rlBucket' = BucketAfter(rlBucket, made)
          /\ rlErr' = made.err
    /\ UNCHANGED <<retryCnt, keysPerReq, listMarker, ctxDone, numVersions,
                   cancelAt, prefix, cvars, lvars>>

\* A plausible slip: the body of a download is copied into the buffer
\* directly.
ThroughLimiterUploadOnly(op, phase, n) ==
    IF op = "Put" /\ phase = "request" THEN n ELSE 0
\* The tokens a step takes from the limiter when it moves n bytes of body:
\* PutObjectWithContext reads its body through rlReader (lines 130, 135),
\* io.Copy writes through ratelimit.NewWriter (line 178); the requests of
\* GetObjectContent, GetObjectMeta and DeleteObject wrap nothing.
ThroughLimiter(op, phase, n) ==
    IF (op = "Put" /\ phase = "request") \/ (op = "GetContent" /\ phase = "drain")
    THEN n ELSE 0

(***************************************************************************)
(* The per-object operations.                                              *)
(***************************************************************************)
\* What a remote call may answer: an error, or (r > 0) response number r.
\* A call on a cancelled context fails.
RemoteOutcomes ==
    IF ctxDone THEN {[kind |-> "canceled", r |-> 0]}
    ELSE [kind : ErrKinds, r : {0}] \cup [kind : {"nil"}, r : 1..NumResults]

\* The Object after a step: lines 189-196 and 220-227 run only on the path
\* that returns nil.
SetMeta(o, result, err) ==
    IF err # NilErr THEN o
    ELSE [o EXCEPT !.ContentType = result.ContentType,
                   !.ContentDisposition = result.ContentDisposition,
                   !.ContentEncoding = result.ContentEncoding,
                   !.ContentLanguage = result.ContentLanguage,
                   !.ETag = strongEtag(result.ETag),
                   !.Metadata = result.Metadata,
                   !.Mtime = result.LastModified,
                   !.CacheControl = result.CacheControl]

\* A plausible slip: the buffer is stored in the Object before the error of
\* the copy is looked at.
SetContentEarly(o, result, buf, err) ==
    IF err # NilErr THEN [o EXCEPT !.Content = Bytes(buf)]
    ELSE [SetMeta(o, result, NilErr) EXCEPT !.Content = Bytes(buf)]
\* Lines 187-196: content and metadata are stored in the Object on the path
\* that returns nil only.
SetContent(o, result, buf, err) ==
    IF err # NilErr THEN o
    ELSE [SetMeta(o, result, NilErr) EXCEPT !.Content = Bytes(buf)]

\* A plausible reading of "two retried phases": after a failed drain only
\* the drain is run again.
AfterSleepDrainOnly(phase) == IF phase = "drain" THEN "drain" ELSE "call"
\* `continue` (lines 172, 182, 215 ...): the next iteration starts at the
\* top of the loop body, the remote call, whichever step failed.
AfterSleep(phase) == "call"

\* A plausible slip: GetObjectContent leaves the client positioned at the
\* object it read, as if it were one more listed record.
CursorAfterOpTracksObject(cursor, op, o) ==
    IF op = "GetContent" THEN o.VersionId ELSE cursor
\* Lines 128-253: no statement of PutObject, GetObjectContent, GetObjectMeta
\* or DeleteObject names storage.listMarker; the cursor after a step of any
\* of them is the cursor before it.
CursorAfterOp(cursor, op, o) == cursor
\* What a step of a per-object call does to the client: it reads ctx,
\* retryCnt and retryInterval and assigns nothing.
ClientAfterOp ==
    /\ listMarker' = CursorAfterOp(listMarker, cop, obj)
    /\ UNCHANGED <<retryCnt, keysPerReq, ctxDone, numVersions, cancelAt,
                   prefix, limiterVars>>

\* A plausible slip: every operation addresses the key under the prefix.
RequestKeyAllPrefixed(op, pfx, key) == Join(pfx, key)
\* The Key of the input: filepath.Join(storage.prefix, *obj.Key) in
\* PutObject (line 134), obj.Key in GetObjectContent, GetObjectMeta and
\* DeleteObject (lines 163, 206, 237).
RequestKey(op, pfx, key) == IF op = "Put" THEN Join(pfx, key) ELSE key

\* A call starts: the request is built and the loop entered with i = 0.
\* PutObject dereferences obj.Content; on a nil Content it panics.
\* A caller makes at most limit calls.
StartOp(op, limit) ==
    /\ cpc \in {"idle", "done"}
    /\ nops < limit
    /\ nops' = nops + 1
    /\ cop' = op
    /\ cpc' = IF op = "Put" /\ obj.Content.nil THEN "panic" ELSE "call"
    /\ ci' = 0
    /\ cleft' = 0
    /\ cresult' = NoResult
    /\ cbuf' = <<>>
    /\ cret' = NilErr
    /\ obj0' = obj
    /\ ccalls' = 0
    /\ cwaits' = 0
    /\ cslept' = 0
    /\ clast' = NilErr
    /\ creqFails' = 0
    /\ cdrainFails' = 0
    /\ cdropped' = 0
    /\ clastPhase' = "none"
    /\ creqAfterDrainFail' = FALSE
    /\ cdoneAtCall' = ctxDone
    /\ cpos' = 0
    /\ ctokens' = 0
    /\ cbucket' = IF op = "Put" THEN rlBucket ELSE NoBucket
    /\ ckey' = RequestKey(op, prefix, obj.Key)
    /\ UNCHANGED <<obj, stored, putKey, clientVars, lvars>>

\* The step after a failed attempt that is retried: time.Sleep begins.
BeginSleep(phase, err) ==
    /\ cpc' = "sleep"
    /\ cleft' = RetryInterval
    /\ cwaits' = cwaits + 1
    /\ creqFails' = creqFails + (IF phase = "request" THEN 1 ELSE 0)
    /\ cdrainFails' = cdrainFails + (IF phase = "drain" THEN 1 ELSE 0)
    /\ clastPhase' = phase
    /\ clast' = err

\* The step after a failed attempt that is the last: return err.
ReturnErr(phase, err) ==
    /\ cpc' = "done"
    /\ cret' = err
    /\ creqFails' = creqFails + (IF phase = "request" THEN 1 ELSE 0)
    /\ cdrainFails' = cdrainFails + (IF phase = "drain" THEN 1 ELSE 0)
    /\ clastPhase' = phase
    /\ clast' = err
    /\ UNCHANGED <<cleft, cwaits>>

\* Lines 129-135 and 146: objReader and input are built once, before the
\* loop, and every attempt passes the same input; the request of an attempt
\* takes its body from the reader where the attempt before left it (the
\* SDK notes the reader's current offset as the start of the body and
\* rewinds to that offset, not to zero).
BodyOffset(pos) == pos
\* The bytes an attempt of PutObject may read from a body of len bytes
\* that starts at offset pos: all that is left when the upload succeeds, any
\* part of it when the upload fails.
PutProgress(kind, len, pos) ==
    IF kind = "nil" THEN {len - pos} ELSE 0..(len - pos)
\* The bytes of *obj.Content from offset pos on.
BodyFrom(o, pos) == SubSeq(o.Content.data, pos + 1, Len(o.Content.data))

\* One remote call of the loop: PutObjectWithContext, GetObjectWithContext,
\* HeadObjectWithContext or DeleteObjectWithContext, and the branch on its
\* error.
CallRemote ==
    /\ cpc = "call"
    /\ \E out \in RemoteOutcomes :
         LET err == IF out.kind = "nil" THEN NilErr ELSE MkErr(out.kind, ccalls + 1)
             result == IF out.kind = "nil" THEN StoreResult(out.r) ELSE NoResult
             d == RetryDecision(err, ci)
             start == BodyOffset(cpos)
         IN /\ ccalls' = ccalls + 1
            /\ IF cop = "Put"
               THEN /\ \E n \in PutProgress(out.kind, Len(obj.Content.data), start) :
                         /\ cpos' = start + n
                         /\ ctokens' = ctokens + ThroughLimiter(cop, "request", n)
                    /\ stored' = IF err = NilErr THEN Bytes(BodyFrom(obj, start))
                                  ELSE stored
                    /\ putKey' = IF err = NilErr THEN [nil |-> FALSE, key |-> ckey]
                                  ELSE putKey
               ELSE /\ ctokens' = ctokens + ThroughLimiter(cop, "request", 0)
                    /\ UNCHANGED <<cpos, stored, putKey>>
            /\ creqAfterDrainFail' =
                  (creqAfterDrainFail
                     \/ clastPhase = "drain")
            /\ obj' = IF cop = "GetMeta" /\ ~(d = "go" /\ err # NilErr)
                      THEN SetMeta(obj, result, err)
                      ELSE obj
            /\ CASE d = "retry" ->
                      /\ BeginSleep("request", err)
                      /\ UNCHANGED <<cret, cresult, cbuf>>
                 [] d = "fail" ->
                      /\ ReturnErr("request", err)
                      /\ UNCHANGED <<cresult, cbuf>>
                 [] OTHER ->
                      \* no error (with an error here result is nil, and the
                      \* two readers dereference it)
                      /\ UNCHANGED <<cleft, cwaits, creqFails, cdrainFails, clastPhase, clast>>
                      /\ IF cop \in {"Put", "Delete"}
                         THEN /\ cpc' = "done"
                              /\ cret' = NilErr
                              /\ UNCHANGED <<cresult, cbuf>>
                         ELSE IF err # NilErr
                         THEN /\ cpc' = "panic"
                              /\ UNCHANGED <<cret, cresult, cbuf>>
                         ELSE IF cop = "GetMeta"
                         THEN /\ cpc' = "done"
                              /\ cret' = NilErr
                              /\ UNCHANGED <<cresult, cbuf>>
                         ELSE /\ cpc' = "drain"
                              /\ cresult' = result
                              /\ UNCHANGED <<cret, cbuf>>
    /\ ClientAfterOp
    /\ UNCHANGED <<cop, ci, nops, obj0, cslept, cdropped, cdoneAtCall, cbucket,
                   ckey, lvars>>

\* How a drain of the body may end: all bytes copied (kind "nil"), or an
\* error after n bytes.  The body of a cancelled request fails to read.
DrainOutcomes(body) ==
    IF ctxDone THEN [kind : {"canceled"}, n : 0..Len(body)]
    ELSE [kind : ErrKinds, n : 0..Len(body)] \cup [kind : {"nil"}, n : {Len(body)}]

\* A plausible reading of "two retried phases": the drain counts its own
\* failures.
DrainAttemptOwn(i, drainFails) == drainFails
\* Lines 179-185: the branches after io.Copy test the same i as the branches
\* after the request (lines 169-175).
DrainAttempt(i, drainFails) == i

\* A plausible slip: the buffer is made once, before the loop, and every
\* drain appends to it.
NewBufferKept(old) == old
\* Line 177, inside the loop: bytes.NewBuffer(make([]byte, 0, ...)), an
\* empty buffer for each drain, whatever the drain before left.
NewBuffer(old) == <<>>

\* Lines 177-198 of GetObjectContent: a new buffer, io.Copy of the body into
\* it through the rate limiter, the branch on its error, and on success the
\* copy of content and metadata into the Object.
DrainBody ==
    /\ cpc = "drain"
    /\ \E out \in DrainOutcomes(cresult.Body) :
         LET err == IF out.kind = "nil" THEN NilErr ELSE MkErr(out.kind, ccalls)
             buf == NewBuffer(cbuf) \o SubSeq(cresult.Body, 1, out.n)
             d == RetryDecision(err, DrainAttempt(ci, cdrainFails))
         IN /\ cbuf' = buf
            /\ cdropped' = cdropped + (IF err # NilErr THEN out.n ELSE 0)
            /\ ctokens' = ctokens + ThroughLimiter(cop, "drain", out.n)
            /\ cbucket' = rlBucket
            /\ obj' = SetContent(obj, cresult, buf, err)
            /\ CASE d = "retry" ->
                      /\ BeginSleep("drain", err)
                      /\ UNCHANGED cret
                 [] d = "fail" ->
                      /\ ReturnErr("drain", err)
                 [] OTHER ->
                      /\ cpc' = "done"
                      /\ cret' = NilErr
                      /\ UNCHANGED <<cleft, cwaits, creqFails, cdrainFails, clastPhase, clast>>
    /\ ClientAfterOp
    /\ UNCHANGED <<cop, ci, cresult, nops, cpos, stored, obj0, ccalls, cslept,
                   creqAfterDrainFail, cdoneAtCall, ckey, putKey, lvars>>

\* A plausible slip: a cancelled context cuts the sleep short.
TicksLeftCancellable(left, done) == IF done THEN 0 ELSE left - 1
\* time.Sleep does not look at the context: one tick less is left.
TicksLeft(left, done) == left - 1

\* time.Sleep(storage.retryInterval): one tick passes; after the last one
\* `continue` runs i++ and the loop body starts again at the remote call.
SleepTick ==
    /\ cpc = "sleep"
    /\ cslept' = cslept + 1
    /\ cleft' = TicksLeft(cleft, ctxDone)
    /\ IF cleft' > 0
       THEN UNCHANGED <<cpc, ci>>
       ELSE /\ cpc' = AfterSleep(clastPhase)
            /\ ci' = ci + 1
    /\ ClientAfterOp
    /\ UNCHANGED <<cop, cresult, cbuf, cret, obj, nops, cpos, stored, obj0,
                   ccalls, cwaits, cdropped, ctokens, cbucket, ckey, putKey,
                   clast, creqFails, cdrainFails, clastPhase,
                   creqAfterDrainFail, cdoneAtCall, lvars>>

(***************************************************************************)
(* List.                                                                   *)
(***************************************************************************)
\* The branch of List after the paged call returned err with loop variable
\* i: as RetryDecision, but the last branch returns err whatever it is.
ListDecision(err, i) ==
    IF err # NilErr /\ i < retryCnt THEN "retry"
    ELSE IF err # NilErr /\ i = retryCnt THEN "fail"
    ELSE "finish"

\* Line 97: the Object built from one version record of a page.
ListedObjectOf(o) ==
    MkObject(QueryUnescape(o.Key), o.VersionId, strongEtag(o.ETag),
             o.LastModified, o.IsLatest)

\* Line 95: the records listObjectsFn ranges over.
RecordsOf(p) == p.Versions

\* A plausible repair of line 99: the cursor is the continuation marker.
CursorFromNext(p) == p.NextVersionIdMarker
\* Line 99: the cursor taken from a page.
CursorFrom(p) == p.VersionIdMarker

\* A plausible slip: a retry resumes after the page whose request failed.
FirstMarkerSkipsFailed(cursor) ==
    IF lreqs = <<>> THEN cursor
    ELSE Min(lreqs[Len(lreqs)].marker + keysPerReq, numVersions)
\* Line 109: the marker of the first page request of an attempt.
FirstMarker(cursor) == cursor

\* List is called: listObjectsFn is built and the loop entered with i = 0;
\* the input of the first attempt carries the cursor.
\* A caller makes at most limit calls.
StartList(limit) ==
    /\ lpc \in {"idle", "done"}
    /\ nlists < limit
    /\ nlists' = nlists + 1
    /\ lpc' = "request"
    /\ li' = 0
    /\ lleft' = 0
    /\ tok' = FirstMarker(listMarker)
    /\ page' = NoPage
    /\ pidx' = 0
    /\ lret' = NilErr
    /\ output' = <<>>
    /\ lreqs' = <<>>
    /\ lfull' = <<>>
    /\ lwaits' = 0
    /\ lslept' = 0
    /\ llast' = NilErr
    /\ prev' = IF lpc = "done"
               THEN [called |-> TRUE, full |-> lfull, ret |-> lret.kind]
               ELSE NoPrev
    /\ UNCHANGED <<consumer, clientVars, cvars>>

\* A plausible slip: the range stops one record early.
AfterSendOffByOne(sent, total) == IF sent + 1 >= total THEN "mark" ELSE "send"
\* Lines 95-99: the range goes on while records are left; the cursor is set
\* after the last one.
AfterSend(sent, total) == IF sent = total THEN "mark" ELSE "send"

\* What a page request may answer: a page (kind "nil") or an error.  A
\* request on a cancelled context fails.
PageOutcomes == IF ctxDone THEN {"canceled"} ELSE ErrKinds \cup {"nil"}

\* ListObjectVersionsPagesWithContext sends one page request with marker tok.
\* On a page it calls listObjectsFn; on an error it returns the error to
\* List, which sleeps and retries or returns it (lines 112-122).
PageRequest ==
    /\ lpc = "request"
    /\ \E kind \in PageOutcomes :
         LET err == IF kind = "nil" THEN NilErr ELSE MkErr(kind, Len(lreqs) + 1)
             d == ListDecision(err, li)
         IN /\ lreqs' = Append(lreqs, [marker |-> tok, attempt |-> li, ok |-> (err = NilErr)])
            /\ IF err = NilErr
               THEN /\ page' = ListObjectVersions(tok, keysPerReq, numVersions)
                    /\ pidx' = 0
                    /\ lpc' = AfterSend(0, Len(RecordsOf(page')))
                    /\ UNCHANGED <<lleft, lret, lwaits, llast>>
               ELSE /\ llast' = err
                    /\ UNCHANGED <<page, pidx>>
                    /\ CASE d = "retry" ->
                              /\ lpc' = "sleep"
                              /\ lleft' = RetryInterval
                              /\ lwaits' = lwaits + 1
                              /\ lret' = lret
                         [] OTHER ->
                              /\ lpc' = "done"
                              /\ lret' = err
                              /\ UNCHANGED <<lleft, lwaits>>
    /\ UNCHANGED <<li, tok, nlists, consumer, output, lfull, lslept, prev,
                   clientVars, cvars>>

\* A plausible alternative: the send is a select that also gives way when
\* the context is cancelled.
SendCompletesOrCancelled(receiving, done) == receiving \/ done
\* Line 97, `output <- &Object{...}`: a plain send on the channel; it
\* completes when the consumer receives and on nothing else.
SendCompletes(receiving, done) == receiving

\* Line 97: one record of the page is sent to the output channel; the send
\* completes when the consumer receives.
SendRecord ==
    /\ lpc = "send"
    /\ SendCompletes(consumer, ctxDone)
    /\ output' = Append(output, ListedObjectOf(RecordsOf(page)[pidx + 1]))
    /\ pidx' = pidx + 1
    /\ lpc' = AfterSend(pidx + 1, Len(RecordsOf(page)))
    /\ UNCHANGED <<li, lleft, tok, page, lret, nlists, consumer, lreqs, lfull,
                   lwaits, lslept, llast, prev, clientVars, cvars>>

\* Lines 99-100: the cursor is set from the page and listObjectsFn returns
\* !lastPage.  The pager then requests the next page with the page's
\* continuation marker, or returns nil to List, which returns nil.
MarkPage ==
    /\ lpc = "mark"
    /\ listMarker' = CursorFrom(page)
    /\ lfull' = Append(lfull, lreqs[Len(lreqs)].marker)
    /\ IF page.IsTruncated
       THEN /\ lpc' = "request"
            /\ tok' = page.NextVersionIdMarker
            /\ lret' = lret
       ELSE /\ lpc' = "done"
            /\ lret' = NilErr
            /\ tok' = tok
    /\ page' = NoPage
    /\ pidx' = 0
    /\ UNCHANGED <<li, lleft, nlists, consumer, output, lreqs, lwaits, lslept,
                   llast, prev, retryCnt, keysPerReq, ctxDone, numVersions,
                   cancelAt, prefix, limiterVars, cvars>>

\* The attempt with loop variable i received at least one page.
Progressed(i) == \E n \in DOMAIN lreqs : lreqs[n].attempt = i /\ lreqs[n].ok
\* A plausible reading of "retry budget": the budget is per page, and an
\* attempt that received a page starts the count again.
NextAttemptPerPage(i, progressed) == IF progressed THEN 0 ELSE i + 1
\* Line 103, `for i := uint(0); ; i++`: one counter for the whole call; the
\* paged call has no access to it.
NextAttempt(i, progressed) == i + 1

\* time.Sleep(storage.retryInterval): one tick passes; after the last one
\* `continue` runs i++ and the next attempt builds its input from the cursor.
ListSleepTick ==
    /\ lpc = "sleep"
    /\ lslept' = lslept + 1
    /\ lleft' = TicksLeft(lleft, ctxDone)
    /\ IF lleft' > 0
       THEN UNCHANGED <<lpc, li, tok>>
       ELSE /\ lpc' = "request"
            /\ li' = NextAttempt(li, Progressed(li))
            /\ tok' = FirstMarker(listMarker)
    /\ UNCHANGED <<page, pidx, lret, nlists, consumer, output, lreqs, lfull,
                   lwaits, llast, prev, clientVars, cvars>>

\* The reader of the output channel stops receiving.
ConsumerStops ==
    /\ consumer
    /\ consumer' = FALSE
    /\ UNCHANGED <<lpc, li, lleft, tok, page, pidx, lret, nlists, output,
                   lreqs, lfull, lwaits, lslept, llast, prev, clientVars, cvars>>

(***************************************************************************)
(* The per-object caller alone.                                            *)
(***************************************************************************)
InitCrudOnly == InitClient({MaxKeysPerReq}, {MaxVersions}, {NoPrefix}) /\ InitCrud /\ InitList
NextCrud ==
    \/ \E op \in Ops : StartOp(op, MaxOps)
    \/ CallRemote
    \/ DrainBody
    \/ SleepTick
    \/ \E d \in BOOLEAN : WithContext(d)
    \/ Cancel
SpecCrud == InitCrudOnly /\ [][NextCrud]_vars

(***************************************************************************)
(* The per-object caller and the owner of the rate limit.                  *)
(***************************************************************************)
InitLimit ==
    /\ InitCrudOnly
    /\ retryCnt < MaxRetry
    /\ obj = FullObject
NextLimit ==
    \/ \E op \in Ops : StartOp(op, MaxOps)
    \/ CallRemote
    \/ DrainBody
    \/ SleepTick
    \/ \E limit \in Limits : WithRateLimit(limit)
SpecLimit == InitLimit /\ [][NextLimit]_vars

(***************************************************************************)
(* The per-object caller on clients made with different prefixes.          *)
(***************************************************************************)
InitKeys ==
    /\ InitClient({MaxKeysPerReq}, {MaxVersions}, Prefixes)
    /\ InitCrud
    /\ obj = FullObject
    /\ InitList
NextKeys ==
    \/ \E op \in Ops : StartOp(op, MaxOps)
    \/ CallRemote
    \/ DrainBody
    \/ SleepTick
SpecKeys == InitKeys /\ [][NextKeys]_vars

(***************************************************************************)
(* The List caller alone.                                                  *)
(***************************************************************************)
InitListOnly ==
    /\ InitClient(2..MaxKeysPerReq, 1..MaxVersions, {NoPrefix})
    /\ InitCrud
    /\ obj = ListedObject
    /\ InitList
NextList ==
    \/ StartList(MaxLists)
    \/ PageRequest
    \/ SendRecord
    \/ MarkPage
    \/ ListSleepTick
    \/ ConsumerStops
    \/ \E d \in BOOLEAN : WithContext(d)
    \/ Cancel
SpecList == InitListOnly /\ [][NextList]_vars

(***************************************************************************)
(* Both callers on one client: one List call and one per-object call, in   *)
(* any interleaving.                                                       *)
(***************************************************************************)
Init ==
    /\ InitClient({2}, {MaxVersions - 2}, {NoPrefix})
    /\ InitCrud
    /\ InitList
Next ==
    \/ StartList(1)
    \/ PageRequest
    \/ SendRecord
    \/ MarkPage
    \/ ListSleepTick
    \/ ConsumerStops
    \/ \E op \in Ops : StartOp(op, 1)
    \/ CallRemote
    \/ DrainBody
    \/ SleepTick
    \/ \E d \in BOOLEAN : WithContext(d)
    \/ Cancel
Spec == Init /\ [][Next]_vars

(***************************************************************************)
(* One List call whose steps are not delayed for ever: a page request      *)
(* returns, a send completes when the consumer receives, time passes.      *)
(***************************************************************************)
NextListLive ==
    \/ StartList(1)
    \/ PageRequest
    \/ SendRecord
    \/ MarkPage
    \/ ListSleepTick
    \/ ConsumerStops
    \/ \E d \in BOOLEAN : WithContext(d)
    \/ Cancel
SpecListLive ==
    /\ InitListOnly
    /\ [][NextListLive]_vars
    /\ WF_vars(PageRequest)
    /\ WF_vars(SendRecord)
    /\ WF_vars(MarkPage)
    /\ WF_vars(ListSleepTick)

(***************************************************************************)
(* One List call in flight while per-object calls run on the same client,  *)
(* the context live and the consumer receiving.                            *)
(***************************************************************************)
InitShared ==
    /\ InitClient({2}, {MaxVersions}, {NoPrefix})
    /\ retryCnt < MaxRetry
    /\ InitCrud
    /\ obj = FullObject
    /\ InitList
NextShared ==
    \/ StartList(1)
    \/ PageRequest
    \/ SendRecord
    \/ MarkPage
    \/ ListSleepTick
    \/ \E op \in Ops : StartOp(op, 1)
    \/ CallRemote
    \/ DrainBody
    \/ SleepTick
SpecShared == InitShared /\ [][NextShared]_vars

(***************************************************************************)
(* One caller that makes one call, of any of the five operations.          *)
(***************************************************************************)
InitOne ==
    /\ InitClient(2..MaxKeysPerReq, {MaxVersions}, {NoPrefix})
    /\ InitCrud
    /\ InitList
NextOne ==
    \/ (cpc = "idle" /\ StartList(1))
    \/ PageRequest
    \/ SendRecord
    \/ MarkPage
    \/ ListSleepTick
    \/ (lpc = "idle" /\ \E op \in Ops : StartOp(op, 1))
    \/ CallRemote
    \/ DrainBody
    \/ SleepTick
    \/ \E d \in BOOLEAN : WithContext(d)
    \/ Cancel
SpecOne == InitOne /\ [][NextOne]_vars

(***************************************************************************)
(* Properties.                                                             *)
(***************************************************************************)
CrudDone == cpc = "done"
ListDone == lpc = "done"
\* Failed attempts of the per-object call so far.
cfailed == creqFails + cdrainFails
\* Failed page requests of the List call so far.
lfailed == Cardinality({n \in DOMAIN lreqs : ~lreqs[n].ok})

\* C1: PutObject, GetObjectMeta and DeleteObject whose remote call fails k <= N
\* times and then succeeds return nil after exactly k+1 remote calls and k
\* full waits, with nothing left running; k <= N failures never make the call
\* return an error.
C1_NilAfterKFailures ==
    (CrudDone /\ cop \in {"Put", "GetMeta", "Delete"}) =>
        /\ cleft = 0
        /\ cret = NilErr =>
              /\ creqFails <= retryCnt
              /\ ccalls = creqFails + 1
              /\ cwaits = creqFails
              /\ cslept = creqFails * RetryInterval
        /\ cret # NilErr => creqFails > retryCnt
\* C1 witness: DeleteObject returned nil on its last allowed attempt.
C1_Witness ==
    /\ CrudDone /\ cop = "Delete" /\ cret = NilErr
    /\ retryCnt = MaxRetry /\ creqFails = MaxRetry /\ ccalls = MaxRetry + 1

\* C2: an operation all of whose attempts fail makes exactly N+1 attempts,
\* waits exactly N times and returns the error value of its last attempt,
\* whatever its kind; an operation that returns nil had a last attempt that
\* did not fail.
C2_LastErrorAfterAllAttempts ==
    /\ CrudDone =>
          IF cret # NilErr
          THEN /\ ci = retryCnt /\ ccalls = retryCnt + 1 /\ cfailed = retryCnt + 1
               /\ cwaits = retryCnt /\ cslept = retryCnt * RetryInterval
               /\ cret = clast /\ cret.seq = ccalls
          ELSE cfailed = ci /\ ccalls = ci + 1
    /\ ListDone =>
          IF lret # NilErr
          THEN /\ li = retryCnt /\ lfailed = retryCnt + 1
               /\ lwaits = retryCnt /\ lslept = retryCnt * RetryInterval
               /\ lret = llast /\ lret.seq = Len(lreqs)
               /\ ~lreqs[Len(lreqs)].ok
          ELSE lfailed = li /\ lreqs[Len(lreqs)].ok
\* C2 witness: GetObjectMeta gave up on a "not found" answer after N+1 calls.
C2_Witness ==
    /\ CrudDone /\ cop = "GetMeta" /\ cret.kind = "notfound"
    /\ retryCnt = MaxRetry /\ ccalls = MaxRetry + 1
\* How often version record v was sent to the channel by this List call.
Count(v) == Cardinality({n \in DOMAIN output : output[n].VersionId = v})
\* The last record of the page requested with marker m: the position after it.
PageEnd(m) == Min(m + keysPerReq, numVersions)
\* The records of the page requested with marker m.
PageIds(m) == (m + 1)..PageEnd(m)
\* The records of the pages whose request failed in this call.
FailedPageIds == UNION {PageIds(lreqs[n].marker) : n \in {k \in DOMAIN lreqs : ~lreqs[k].ok}}
\* This List call began with an empty cursor.
FromEmptyCursor == lreqs # <<>> /\ lreqs[1].marker = Nil

\* C3 (as claimed): in a List over several pages, begun with an empty cursor
\* and retry count >= 1, in which exactly one page request failed once, List
\* returns nil, every record is delivered at least once and every record of
\* a page other than the failed one exactly once.
C3_OtherPagesExactlyOnce ==
    (ListDone /\ FromEmptyCursor /\ retryCnt >= 1 /\ numVersions > keysPerReq
       /\ lfailed = 1) =>
        /\ lret = NilErr
        /\ \A v \in 1..numVersions :
              /\ Count(v) >= 1
              /\ v \notin FailedPageIds => Count(v) = 1

\* C4 (as claimed): when an attempt of List failed after a page was fully
\* processed, the first page request of the retry carries the cursor, and
\* the cursor is the position after the last fully processed page, not the
\* beginning.
C4_RetryResumesAfterLastPage ==
    (lpc = "request" /\ li > 0 /\ lreqs # <<>> /\ lreqs[Len(lreqs)].attempt < li
       /\ lfull # <<>>) =>
        /\ tok = listMarker
        /\ listMarker = PageEnd(lfull[Len(lfull)])
        /\ tok # Nil

\* C5: a List call that began with an empty cursor and returns nil has sent
\* every version record of the store at least once, wherever its failed page
\* requests fell.
C5_NoRecordLost ==
    (ListDone /\ lret = NilErr /\ FromEmptyCursor) =>
        \A v \in 1..numVersions : Count(v) >= 1
\* C5 witness: List returned nil after N failed requests on different pages.
C5_Witness ==
    /\ ListDone /\ lret = NilErr /\ FromEmptyCursor
    /\ numVersions = MaxVersions /\ retryCnt = MaxRetry /\ lfailed = MaxRetry
    /\ \E a, b \in DOMAIN lreqs :
          ~lreqs[a].ok /\ ~lreqs[b].ok /\ lreqs[a].marker # lreqs[b].marker
\* C6 (as claimed): a get-object request is never issued after a failed
\* drain of the body.
C6_NoRequestAfterDrainFailure == cop = "GetContent" => ~creqAfterDrainFail
\* C6 (amended): every attempt of GetObjectContent, whichever phase failed
\* before it, starts with a new get-object request: the requests issued are
\* one per failed attempt plus one for the attempt in progress, so a failed
\* drain is followed, after the wait, by a request and not by a drain.
C6_DrainFailureRestartsAttempt ==
    cop = "GetContent" =>
        /\ cpc = "call" => (ccalls = ci /\ cfailed = ci)
        /\ cpc = "drain" => (ccalls = ci + 1 /\ cfailed = ci)
        /\ cpc = "sleep" => (ccalls = ci + 1 /\ cfailed = ci + 1)
        /\ CrudDone => ccalls = ci + 1
\* C6 witness: GetObjectContent returned nil after a failed request and a
\* failed drain, the drain having been followed by a new request.
C6_Witness ==
    /\ CrudDone /\ cop = "GetContent" /\ cret = NilErr
    /\ creqFails >= 1 /\ cdrainFails >= 1 /\ creqAfterDrainFail

\* The pages the previous List call finished, by their last record.
PrevLastEnd == PageEnd(prev.full[Len(prev.full)])
\* C7 (as claimed): after a List that was cancelled once it had fully
\* processed some pages, the next List on the client, once its first request
\* is answered, continues after the last of them: that request is not from
\* the beginning and no record of those pages is delivered again.
C7_ResumedListContinues ==
    (prev.called /\ prev.ret = "canceled" /\ prev.full # <<>> /\ lreqs # <<>>
       /\ lreqs[1].ok) =>
        /\ lreqs[1].marker # Nil
        /\ lreqs[1].marker >= PrevLastEnd
        /\ \A n \in DOMAIN prev.full :
              \A v \in PageIds(prev.full[n]) : Count(v) = 0

\* C8: while GetObjectContent or GetObjectMeta runs, and when it has returned
\* an error, the Object is as it was passed; when it has returned nil, Key,
\* VersionId, IsLatest and ACL are as passed, and for GetObjectMeta Content
\* too.
C8_ObjectUntouchedOnError ==
    (cop \in {"GetContent", "GetMeta"} /\ cpc \in {"call", "drain", "sleep", "done", "panic"}) =>
        /\ (cpc # "done" \/ cret # NilErr) => obj = obj0
        /\ obj.Key = obj0.Key /\ obj.VersionId = obj0.VersionId
        /\ obj.IsLatest = obj0.IsLatest /\ obj.ACL = obj0.ACL
        /\ cop = "GetMeta" => obj.Content = obj0.Content
\* C8 witness: GetObjectContent returned the error of a drain that had copied
\* part of the body, on an Object that held content and metadata.
C8_Witness ==
    /\ CrudDone /\ cop = "GetContent" /\ cret # NilErr /\ clastPhase = "drain"
    /\ cbuf # <<>> /\ obj0 = FullObject

\* The Objects of the page requested with marker m, in the store's order.
PageObjects(m) == [j \in 1..(PageEnd(m) - m) |-> ListedObjectOf(StoreVersion(m + j))]
\* What the first n page requests of this call must have put on the channel:
\* the pages received, in order; of a page being sent, its first pidx records.
RECURSIVE Delivered(_)
Delivered(n) ==
    IF n = 0 THEN <<>>
    ELSE Delivered(n - 1) \o
         (IF ~lreqs[n].ok THEN <<>>
          ELSE IF n = Len(lreqs) /\ lpc = "send"
          THEN SubSeq(PageObjects(lreqs[n].marker), 1, pidx)
          ELSE PageObjects(lreqs[n].marker))
\* The markers of the page requests that were answered with a page.
RECURSIVE OkMarkers(_)
OkMarkers(n) ==
    IF n = 0 THEN <<>>
    ELSE IF lreqs[n].ok THEN Append(OkMarkers(n - 1), lreqs[n].marker)
    ELSE OkMarkers(n - 1)

\* C9: the channel holds the records of the pages received, page after page
\* and in the store's order inside a page; the cursor has been set once for
\* each page all of whose records were sent, and for no other, and it is set
\* before the next page request is issued.
C9_OrderAndCursorTiming ==
    LET ok == OkMarkers(Len(lreqs))
    IN /\ output = Delivered(Len(lreqs))
       /\ lpc \in {"send", "mark"} =>
             /\ lreqs[Len(lreqs)].ok
             /\ lfull = SubSeq(ok, 1, Len(ok) - 1)
             /\ lpc = "send" => pidx < Len(page.Versions)
             /\ lpc = "mark" => pidx = Len(page.Versions)
       /\ lpc \in {"request", "sleep", "done"} => lfull = ok
\* C9 witness: a third page is about to be requested after a failed request.
C9_Witness ==
    /\ lpc = "request" /\ Len(lfull) >= 2 /\ lfailed >= 1 /\ Len(output) >= 4
    /\ tok # Nil

\* C10: a wait between attempts lasts its full interval whether or not the
\* context is cancelled, every attempt is preceded by all its waits, and a
\* call that returns the cancellation error has made N+1 attempts and N full
\* waits.
C10_CancelNotConsultedBetweenAttempts ==
    /\ cpc = "sleep" => (cleft >= 1 /\ cslept + cleft = cwaits * RetryInterval)
    /\ cpc \in {"call", "drain"} => (cwaits = ci /\ cslept = ci * RetryInterval)
    /\ (CrudDone /\ cret.kind = "canceled") =>
          (ccalls = retryCnt + 1 /\ cwaits = retryCnt
             /\ cslept = retryCnt * RetryInterval)
    /\ lpc = "sleep" => (lleft >= 1 /\ lslept + lleft = lwaits * RetryInterval)
    /\ lpc \in {"request", "send", "mark"} =>
          (lwaits = li /\ lslept = li * RetryInterval)
    /\ (ListDone /\ lret.kind = "canceled") =>
          (li = retryCnt /\ lwaits = retryCnt /\ lslept = retryCnt * RetryInterval)
\* C10 witness: the context was cancelled while DeleteObject slept after its
\* first failure, and DeleteObject still ran all its attempts.
C10_Witness ==
    /\ CrudDone /\ cop = "Delete" /\ cret.kind = "canceled"
    /\ cancelAt.c = "sleep" /\ creqFails = MaxRetry + 1
    /\ retryCnt = MaxRetry /\ cslept = MaxRetry * RetryInterval

\* The cursor as the List calls alone determine it: the request marker of
\* the last page listObjectsFn finished, nil before the first.
CursorOfList == IF lfull = <<>> THEN Nil ELSE lfull[Len(lfull)]
\* A step of a per-object call: the only steps that change its variables.
StepOfOp == cvars' # cvars

\* C11: with one List in flight and per-object calls running on the same
\* client in any interleaving, no step of PutObject, GetObjectContent,
\* GetObjectMeta or DeleteObject changes the cursor, the marker of the next
\* page request or the records sent; the cursor and the records sent are at
\* every moment what the page requests of List alone determine.
C11_OpsLeaveCursorAndListing ==
    /\ [](listMarker = CursorOfList /\ output = Delivered(Len(lreqs)))
    /\ [][StepOfOp => (listMarker' = listMarker /\ tok' = tok
                         /\ output' = output /\ lfull' = lfull)]_vars
\* C11 witness: GetObjectContent returned nil, after a retry, while List was
\* sending its third page with the cursor on the second.
C11_Witness ==
    /\ lpc = "send" /\ listMarker # Nil /\ Len(lfull) = 2
    /\ CrudDone /\ cop = "GetContent" /\ cret = NilErr /\ cfailed >= 1

\* List is inside a send that no consumer receives.
BlockedSend == lpc = "send" /\ ~consumer
\* List has been called and has not returned.
ListRunning == lpc \in {"request", "send", "mark", "sleep"}

\* C12: once the consumer has stopped receiving, a List that reaches a send
\* stays in it: it does not return, issues no page request, sends nothing
\* and does not move to another attempt, whatever the retry count and
\* whether or not the context is cancelled; and a List whose consumer goes
\* on receiving returns, the listing being finite and every page request
\* and wait coming to an end.
C12_SendBlocksUntilReceived ==
    /\ [][BlockedSend => (BlockedSend' /\ lreqs' = lreqs /\ output' = output
                            /\ li' = li /\ pidx' = pidx /\ lret' = lret
                            /\ listMarker' = listMarker)]_vars
    /\ (ListRunning ~> (ListDone \/ ~consumer))
\* C12 witness: List sits in a send with no consumer, on its last attempt,
\* the context having been cancelled during the send.
C12_Witness ==
    /\ BlockedSend /\ ctxDone /\ cancelAt.l = "send"
    /\ retryCnt >= 1 /\ li = retryCnt /\ pidx >= 1

\* C13 (as claimed): whenever PutObject returns nil, the body the store
\* accepted from it is the whole of *obj.Content, whatever part of the body
\* the attempts before the successful one had transferred.
C13_PutStoresCompleteContent ==
    (CrudDone /\ cop = "Put" /\ cret = NilErr) => stored = obj.Content

\* C14: when GetObjectContent has returned nil, obj.Content is the body of
\* the response its last attempt received, byte for byte and of the length
\* the response declared, however many bytes the failed drains before it
\* had copied; every attempt starts from an empty buffer, so no drain
\* leaves more in the buffer than the body it read.
C14_ContentIsLastDrainOnly ==
    cop = "GetContent" =>
        /\ (CrudDone /\ cret = NilErr) =>
              /\ obj.Content = Bytes(cresult.Body)
              /\ Len(obj.Content.data) = cresult.ContentLength
        /\ cpc \in {"call", "sleep", "done"} => Len(cbuf) <= Len(cresult.Body)
\* C14 witness: GetObjectContent returned nil after two drains that failed
\* with bytes of the body already copied.
C14_Witness ==
    /\ CrudDone /\ cop = "GetContent" /\ cret = NilErr
    /\ cdrainFails = 2 /\ cdropped >= 2 /\ obj0 = FullObject

\* The failed page requests of this call, by their place in lreqs.
FailedReqs == {n \in DOMAIN lreqs : ~lreqs[n].ok}

\* C15: the attempt counter of List counts every failed page request of
\* the call, whichever page it was for and whatever was delivered since the
\* failure before: a running List has spent as many attempts as it had
\* failures, it returns an error exactly when its (N+1)th page request has
\* failed, that error being the last one, and the channel then holds every
\* page the call received.
C15_ListBudgetCoversWholeCall ==
    /\ lpc \in {"request", "send", "mark"} => (lfailed = li /\ li <= retryCnt)
    /\ lpc = "sleep" => (lfailed = li + 1 /\ li < retryCnt)
    /\ lfailed <= retryCnt + 1
    /\ lfailed = retryCnt + 1 =>
          /\ ListDone /\ lret # NilErr /\ lret = llast
          /\ output = Delivered(Len(lreqs))
    /\ (ListDone /\ lret # NilErr) => lfailed = retryCnt + 1
\* C15 witness: List returned an error after N+1 failures on different
\* pages, with pages received between one failure and the next.
C15_Witness ==
    /\ ListDone /\ lret # NilErr /\ retryCnt = MaxRetry /\ Len(output) >= 4
    /\ \E a, b \in FailedReqs :
          /\ a < b /\ lreqs[a].marker # lreqs[b].marker
          /\ \E n \in (a + 1)..(b - 1) : lreqs[n].ok

\* C16: over any mix of failed requests and failed drains GetObjectContent
\* issues at most N+1 get-object requests and starts at most N waits, one
\* after each failure but the (N+1)th; when its (N+1)th failure has
\* happened, in either phase, it has returned the error of that failure,
\* and it returns no error before.
C16_OneBudgetForBothPhases ==
    cop = "GetContent" =>
        /\ ccalls <= retryCnt + 1
        /\ cwaits <= retryCnt
        /\ cfailed <= retryCnt + 1
        /\ cwaits = Min(cfailed, retryCnt)
        /\ cfailed = retryCnt + 1 => (CrudDone /\ cret # NilErr /\ cret = clast)
        /\ (CrudDone /\ cret # NilErr) => cfailed = retryCnt + 1
\* C16 witness: GetObjectContent gave up on a failed drain, its budget spent
\* on failures of both phases.
C16_Witness ==
    /\ CrudDone /\ cop = "GetContent" /\ cret # NilErr /\ clastPhase = "drain"
    /\ retryCnt = MaxRetry /\ creqFails >= 1 /\ cdrainFails >= 1
    /\ ccalls = MaxRetry + 1 /\ cwaits = MaxRetry

\* The List call before this one returned nil.
PrevReturnedNil == prev.called /\ prev.ret = "nil"
\* The marker the final page of the List call before this one was requested
\* with, which is the VersionIdMarker its response carried.
PrevFinalMarker == prev.full[Len(prev.full)]

BodyBytes ==
    CASE cop = "Put" -> cpos
      [] cop = "GetContent" ->
            cdropped + (IF CrudDone /\ cret = NilErr THEN Len(cbuf) ELSE 0)
      [] OTHER -> 0
CrudRunning == cpc \in {"call", "drain", "sleep"}

\* C18: GetObjectMeta and DeleteObject take no token and wrap no limiter;
\* PutObject and GetObjectContent take one token for every byte of body
\* they move, failed attempts included, from the limiter that is installed
\* in the client while they run; and a WithRateLimit call that returns an
\* error leaves the installed limiter as it was, while one that returns nil
\* installs a new one.
C18_LimiterOnBodiesOnly ==
    /\ [](/\ cop \in {"GetMeta", "Delete"} => (ctokens = 0 /\ cbucket = NoBucket)
          /\ (cop \in {"Put", "GetContent"} /\ cpc # "idle") =>
                /\ ctokens = BodyBytes
                /\ cbucket # NoBucket => cbucket.id >= 0
                /\ CrudRunning => cbucket \in {NoBucket, rlBucket}
                /\ ctokens > 0 => cbucket # NoBucket
          /\ rlBucket # NoBucket)
    /\ [][nrl' # nrl =>
             IF rlErr' THEN rlBucket' = rlBucket
             ELSE rlBucket'.id = nrl' /\ rlBucket' # rlBucket]_vars
\* C18 witness: GetObjectContent returned nil after a failed drain, on a
\* client whose limit had been set and then set again with a value that was
\* refused.
C18_Witness ==
    /\ CrudDone /\ cop = "GetContent" /\ cret = NilErr /\ cdropped >= 1
    /\ ctokens >= 3 /\ cbucket = rlBucket /\ rlBucket.id = 1 /\ rlErr /\ nrl = 2

\* The prefix, cleaned, holds a name: an element other than ".", ".." and
\* the root.
HasName(pfx) ==
    \E n \in DOMAIN Split(Clean(pfx)) :
        Split(Clean(pfx))[n] \notin {<<>>, <<".">>, DotDot}
\* A call other than PutObject was made after a PutObject that returned nil.
ReadAfterPut == ~putKey.nil /\ cop # "Put" /\ cpc # "idle"

=============================================================================
